---- MODULE Spec2Model ----
(***************************************************************************)
(* SOFAI metacognitive controller (core/metacognitive_module.py): one      *)
(* MCModule, its episodic memory, and the solve() refinement / escalation  *)
(* loop.  solve() is cut at its collaborator calls, so that every action   *)
(* is the code between two answers of the outside world (agent client,     *)
(* domain, memory), each of which either returns a value or raises.        *)
(***************************************************************************)
EXTENDS Integers, Sequences, FiniteSets

\* ---------------------------------------------------------------- bounds
\* largest max_iterations a controller is constructed with
MaxIter == 3
\* number of solve() calls made on the one controller
MaxSolves == 2
\* largest wall-clock duration (in ticks) measured around run_s2_solver
MaxElapsed == 1

\* longest agent text (in tokens) given to parse_fixed_code on its own
MaxTextLen == 3
MaxResponseLen == 5
\* most lines of an agent text given to the graph-coloring parser on its own
MaxLines == 2
\* latest reading of the wall clock (seconds) while the validator is observed
MaxClock == 33
\* most entries of an episodic memory queried on its own
MaxEntries == 3
\* largest k asked of retrieve_similar on its own
MaxK == 2

\* seconds between two submissions
SUBMISSION_COOLDOWN == 15

\* max_iterations is a plain int argument: zero and negative are accepted
IterationChoices == -1 .. MaxIter

Problems == {1, 2}

\* ------------------------------------------------------- domain values
\* An agent text is a sequence of tokens: the markers the code-debugging
\* parser looks for, whitespace ("_"), and two words of code ("fix": the
\* correct repair, "bug": anything else).
CodeTokens == {"<code>", "</code>", "fence_python", "fence", "_", "fix", "bug"}

Texts == UNION {[1 .. n -> CodeTokens] : n \in 0 .. MaxTextLen}

\* what ollama.chat streams inside solve(), chunk by chunk: the repair in
\* tags, a wrong repair in a fence, and prose without any marker
Streams ==
  { << <<"<code>">>, <<"fix", "</code>">> >>,
    << <<"fence_python", "bug", "fence">> >>,
    << <<"bug">>, <<"_">>, <<"bug">> >> }

\* response = "" and response += chunk for every chunk of the stream
RECURSIVE Concat(_)
Concat(chunks) ==
  IF chunks = <<>> THEN <<>>
  ELSE Head(chunks) \o Concat(Tail(chunks))

\* variant: the client adds its answer to the list it was given
generate_response_appends(solver, msgs, chunks) ==
  [solver |-> solver,
   messages |-> Append(msgs, [role |-> "assistant",
                              content |-> Concat(chunks)]),
   response |-> Concat(chunks)]

\* LLMSolver.generate_response: the client and the list after the call,
\* and the text returned
generate_response(solver, msgs, chunks) ==
  [solver |-> solver, messages |-> msgs, response |-> Concat(chunks)]

\* the complete texts the agent answers with
Responses == {Concat(chunks) : chunks \in Streams}

NoSolution == <<"None">>
NoResponse == <<"None">>

\* validate_solution feedback: a list of violations or a result mapping
NoFeedback == [shape |-> "none", size |-> 0, status_msg |-> ""]
Feedbacks ==
  { [shape |-> "list", size |-> 1, status_msg |-> ""],
    [shape |-> "list", size |-> 2, status_msg |-> ""],
    [shape |-> "dict", size |-> 1, status_msg |-> "Wrong Answer"] }

\* what validate_code_with_leetcode returns when the credential is missing
EnvironmentErrorFeedback ==
  [shape |-> "dict", size |-> 1, status_msg |-> "Environment Error"]

Min(a, b) == IF a < b THEN a ELSE b
Max(a, b) == IF a < b THEN b ELSE a

\* DomainInterface.get_problem_representation: the text used for retrieval
get_problem_representation(p) ==
  IF p = 1 THEN <<"p", "edge", "g1">> ELSE <<"p", "edge", "g2">>

SetMin(S) == CHOOSE x \in S : \A y \in S : x <= y
SetMax(S) == CHOOSE x \in S : \A y \in S : y <= x

\* str.strip(): drop leading and trailing whitespace
Strip(t) ==
  LET solid == {i \in 1 .. Len(t) : t[i] # "_"}
  IN IF solid = {} THEN <<>> ELSE SubSeq(t, SetMin(solid), SetMax(solid))

NoMatch == <<0, 0>>

\* re.search(opener \s*(.*?)\s* closer, DOTALL): the leftmost opener that
\* has a closer after it, and the first closer after it
Search(t, openers, closers) ==
  LET os == {i \in 1 .. Len(t) : t[i] \in openers}
  IN IF os = {} THEN NoMatch
     ELSE LET i == SetMin(os)
              cs == {j \in i + 1 .. Len(t) : t[j] \in closers}
          IN IF cs = {} THEN NoMatch ELSE <<i, SetMin(cs)>>

\* the two fence markers, three backquotes with and without "python"; the
\* first also begins with the second
Fences == {"fence_python", "fence"}

\* variant: the fences are tried before the tags
parse_fixed_code_fences_first(text) ==
  LET Group(m) == Strip(SubSeq(text, m[1] + 1, m[2] - 1))
      tags == Search(text, {"<code>"}, {"</code>"})
      python == Search(text, {"fence_python"}, Fences)
      fence == Search(text, Fences, Fences)
  IN IF python # NoMatch THEN Group(python)
     ELSE IF fence # NoMatch THEN Group(fence)
     ELSE IF tags # NoMatch THEN Group(tags)
     ELSE Strip(text)

\* parse_fixed_code: <code> tags, else a python fence, else any fence, else
\* the whole stripped text
parse_fixed_code(text) ==
  LET Group(m) == Strip(SubSeq(text, m[1] + 1, m[2] - 1))
      tags == Search(text, {"<code>"}, {"</code>"})
      python == Search(text, {"fence_python"}, Fences)
      fence == Search(text, Fences, Fences)
  IN IF tags # NoMatch THEN Group(tags)
     ELSE IF python # NoMatch THEN Group(python)
     ELSE IF fence # NoMatch THEN Group(fence)
     ELSE Strip(text)

\* CodeDebuggingDomain.parse_solution
parse_solution(r) == parse_fixed_code(r)

\* what run_s2_solver may return: the parsed response of its client
S2Solutions == {parse_solution(r) : r \in Responses}

\* A line of an agent text for the graph-coloring parser: a line that
\* starts with a "(vertex colour)" pair, one whose colour numeral has more
\* digits than int() converts when the interpreter limits the conversion
\* (its value is then beyond every colour), or a line without a pair at
\* its start.
ColoringLines ==
  { [kind |-> "pair", vertex |-> "a", color |-> 1],
    [kind |-> "pair", vertex |-> "a", color |-> 2],
    [kind |-> "pair", vertex |-> "b", color |-> 1],
    [kind |-> "long", vertex |-> "b", color |-> 9],
    [kind |-> "junk", vertex |-> "", color |-> 0] }

ColoringTexts == UNION {[1 .. n -> ColoringLines] : n \in 0 .. MaxLines}

\* graph-coloring parse_solution: the last pair of each vertex, the empty
\* mapping when no line matches; int() raises ValueError on a numeral
\* beyond the digit limit of the interpreter, where the interpreter has one
parse_coloring(lines, int_limited) ==
  LET matched == {i \in 1 .. Len(lines) : lines[i].kind # "junk"}
      last == {i \in matched :
                 \A j \in matched :
                   j > i => lines[j].vertex # lines[i].vertex}
  IN IF int_limited /\ \E i \in matched : lines[i].kind = "long"
     THEN [raised |-> TRUE, value |-> {}]
     ELSE [raised |-> FALSE,
           value |-> {<<lines[i].vertex, lines[i].color>> : i \in last}]

\* DomainInterface.format_solution_for_memory
format_solution_for_memory(s) == <<"Fixed Code:">> \o s

\* DomainInterface.format_feedback
format_feedback(f) == <<"Status:", f.status_msg, f.shape, f.size>>

\* DomainInterface.build_prompt: the task preceded by at most 3 examples
build_prompt(p, examples) ==
  [task |-> p, examples |-> SubSeq(examples, 1, Min(3, Len(examples)))]

\* tester.test and the acceptance test after it: what the judge may answer
\* for a candidate.  A wrong or missing candidate is never accepted; a correct
\* one is accepted unless the judge itself fails (dict-shaped diagnostic).
tester_test(p, s) ==
  IF s = <<"fix">>
  THEN {<<TRUE, NoFeedback>>} \cup
       {<<FALSE, f>> : f \in {g \in Feedbacks : g.shape = "dict"}}
  ELSE {<<FALSE, f>> : f \in Feedbacks}

\* ------------------------------------------------------ episodic memory
\* EpisodicMemory.add_memory: append one (problem, solution) pair
add_memory(mem, prob_repr, sol_repr) == Append(mem, <<prob_repr, sol_repr>>)

RetrieveK == 3

TokensOf(text) == {text[i] : i \in 1 .. Len(text)}

\* number of stored problem representations containing token t
DocFreq(mem, t) == Cardinality({i \in 1 .. Len(mem) : t \in TokensOf(mem[i][1])})

RECURSIVE SumIdf(_, _)
SumIdf(mem, toks) ==
  IF toks = {} THEN 0
  ELSE LET t == CHOOSE x \in toks : TRUE
       IN (Len(mem) + 1 - DocFreq(mem, t)) + SumIdf(mem, toks \ {t})

\* relevance of entry i to the query: rarer shared tokens weigh more
Score(mem, i, query) == SumIdf(mem, TokensOf(query) \cap TokensOf(mem[i][1]))

\* variant: the ranking is sorted the wrong way round, least relevant first
retrieve_similar_ascending(mem, query, k) ==
  LET Before(i, j) == \/ Score(mem, i, query) < Score(mem, j, query)
                      \/ /\ Score(mem, i, query) = Score(mem, j, query)
                         /\ i < j
      Rank(i) == 1 + Cardinality({j \in 1 .. Len(mem) : Before(j, i)})
      At(r) == CHOOSE i \in 1 .. Len(mem) : Rank(i) = r
  IN [r \in 1 .. Min(k, Len(mem)) |-> mem[At(r)]]

\* EpisodicMemory.retrieve_similar: top-k by relevance, earlier entry first
\* on a tie
retrieve_similar(mem, query, k) ==
  LET Before(i, j) == \/ Score(mem, i, query) > Score(mem, j, query)
                      \/ /\ Score(mem, i, query) = Score(mem, j, query)
                         /\ i < j
      Rank(i) == 1 + Cardinality({j \in 1 .. Len(mem) : Before(j, i)})
      At(r) == CHOOSE i \in 1 .. Len(mem) : Rank(i) = r
  IN [r \in 1 .. Min(k, Len(mem)) |-> mem[At(r)]]

\* the memory after a retrieve_similar call
\* variant: the best match is moved to the end of the store
retrieve_similar_store_touch(mem, query, k) ==
  LET hit == retrieve_similar(mem, query, 1)
      first == IF mem = <<>> THEN 0
               ELSE SetMin({i \in 1 .. Len(mem) : mem[i] = hit[1]})
  IN IF mem = <<>> THEN mem
     ELSE SubSeq(mem, 1, first - 1) \o SubSeq(mem, first + 1, Len(mem))
          \o hit

\* EpisodicMemory.retrieve_similar, its effect on the store: none
retrieve_similar_store(mem, query, k) == mem

\* variant: the index is built without the emptiness test, which fails on a
\* store of zero documents
retrieve_similar_call_unguarded(mem, query, k) ==
  [raised |-> mem = <<>>,
   entries |-> IF mem = <<>> THEN <<>> ELSE retrieve_similar(mem, query, k)]

\* EpisodicMemory.retrieve_similar as its caller sees it: returns, or raises
retrieve_similar_call(mem, query, k) ==
  [raised |-> FALSE, entries |-> retrieve_similar(mem, query, k)]

\* problem representations stored in, and asked of, a memory on its own
Representations ==
  { <<"u">>, <<"a", "b">>, <<"a">> }
  \cup {get_problem_representation(p) : p \in Problems}

Queries == {<<>>, <<"z">>, <<"u">>, <<"u", "a", "b">>,
            get_problem_representation(1)}

\* ------------------------------------------------------ trend evaluator
\* ImprovementTrendEvaluator.update_feedback
update_feedback(history, f) == Append(history, f)

\* variant: only a sample that is strictly worse counts as no improvement
get_no_improvement_flag_worse_only(history) ==
  LET n == Len(history) IN
  IF n < 2 THEN FALSE
  ELSE IF history[n].shape # history[n - 1].shape THEN TRUE
  ELSE history[n].size > history[n - 1].size

\* ImprovementTrendEvaluator.get_no_improvement_flag
get_no_improvement_flag(history) ==
  LET n == Len(history) IN
  IF n < 2 THEN FALSE
  ELSE IF history[n].shape # history[n - 1].shape THEN TRUE
  ELSE ~(history[n].size < history[n - 1].size)

\* ------------------------------------------------------------ variables
VARIABLES
  max_iterations,     \* self.max_iterations
  memory,             \* self.episodic_memory.memory
  pc,                 \* position of the current solve() call
  solves,             \* solve() calls started so far
  problem, verbose,   \* arguments of the current call
  problem_repr, episodic_examples, messages,
  iteration, s1_solved, s2_solved, solution, s2_time,
  llm_response, is_valid, feedback,
  trend_evaluator,    \* feedback_history of this call's evaluator
  result,             \* the returned dict
  \* observations of the current call
  mem_start,          \* memory when the call started
  retrieved,          \* retrieve_similar was called
  s1_inputs,          \* conversation passed to each generate_response
  s1_outputs,         \* what each generate_response returned
  val_log,            \* each validate_solution call and its answer
  s1_calls, s2_calls, \* generate_response / run_s2_solver invocations
  s2_mark,            \* what had happened when run_s2_solver returned
  s2_input,           \* the client and conversation run_s2_solver was given
  probe,              \* a parser applied on its own: the text and the result
  leetcode_session,   \* os.environ has LEETCODE_SESSION
  tester_available,   \* the LeetCodeTester class could be imported
  tester_instance,    \* _tester_instance is not None
  last_submission_time, \* _last_submission_time
  now,                \* time.time()
  validation,         \* what the last validate_code_with_leetcode call did
  tester_log,         \* testers created and tester.test invocations so far
  llm_solver,         \* self.llm_solver: the fields of the S1 client
  stream,             \* the chunks the last S1 call of this solve received
  solved_calls,       \* calls on this controller that returned solved
  main                \* main(): its position, arguments and locals

vars ==
  << max_iterations, memory, pc, solves, problem, verbose, problem_repr,
     episodic_examples, messages, iteration, s1_solved, s2_solved, solution,
     s2_time, llm_response, is_valid, feedback, trend_evaluator, result,
     mem_start, retrieved, s1_inputs, s1_outputs, val_log, s1_calls,
     s2_calls, s2_mark, s2_input, solved_calls, probe, leetcode_session,
     tester_available, tester_instance, last_submission_time, now,
     validation, tester_log, llm_solver, stream, main >>

\* the S1 client and what it last received
client_vars == << llm_solver, stream >>

\* the process environment and the validator module's globals
validator_vars ==
  << leetcode_session, tester_available, tester_instance,
     last_submission_time, now, validation, tester_log >>

ctl == << max_iterations, solves, problem, verbose >>
obs == << mem_start, retrieved, s1_inputs, s1_outputs, val_log, s1_calls,
          s2_calls, s2_mark, s2_input, solved_calls >>

NoOutcome ==
  [solved |-> FALSE, solution |-> NoSolution, s1_solved |-> FALSE,
   s2_solved |-> FALSE, iterations |-> 0, s2_time |-> 0]

NoMark == [at |-> 0, s1 |-> 0, vals |-> 0, solution |-> NoSolution]

NoInput == [client |-> "None", messages |-> <<>>]

NoRetrieval == [done |-> FALSE, raised |-> FALSE, entries |-> <<>>]

NoProbe ==
  [parser |-> "none", response |-> <<>>, fixed_code |-> <<>>, lines |-> <<>>,
   coloring |-> [raised |-> FALSE, value |-> {}],
   query |-> <<>>, k |-> 0, store |-> <<>>,
   retrieved |-> NoRetrieval, again |-> NoRetrieval]

\* main(): no --problem-index, no arguments, nothing loaded, no controller
NoIndex == [given |-> FALSE, value |-> 0]

NoArgs ==
  [domain |-> "None", s1_llm |-> "", s2_lrm |-> "", max_iterations |-> 0,
   bug_type |-> "None", problem_index |-> NoIndex, verbose |-> FALSE]

\* nothing was loaded
NoLoad == [called |-> FALSE, raised |-> "", line |-> 0, item |-> -1,
           data_len |-> 0]

NoController == [constructed |-> FALSE, llm_model |-> "", s2_llm_model |-> "",
                 max_iterations |-> 0]

NoMain ==
  [pc |-> "start", args |-> NoArgs, domain |-> "None", loaded |-> NoLoad,
   problems |-> 0, mc |-> NoController, solve_calls |-> 0, error |-> ""]

Terminal == {"returned", "raised"}

\* MCModule.__init__
ControllerInit ==
  /\ max_iterations \in IterationChoices
  /\ memory = <<>>
  /\ pc = "idle"
  /\ solves = 0
  /\ problem = 1
  /\ verbose = FALSE
  /\ problem_repr = <<>>
  /\ episodic_examples = <<>>
  /\ messages = <<>>
  /\ iteration = 0
  /\ s1_solved = FALSE
  /\ s2_solved = FALSE
  /\ solution = NoSolution
  /\ s2_time = 0
  /\ llm_response = NoResponse
  /\ is_valid = FALSE
  /\ feedback = NoFeedback
  /\ trend_evaluator = <<>>
  /\ result = NoOutcome
  /\ mem_start = <<>>
  /\ retrieved = FALSE
  /\ s1_inputs = <<>>
  /\ s1_outputs = <<>>
  /\ val_log = <<>>
  /\ s1_calls = 0
  /\ s2_calls = 0
  /\ s2_mark = NoMark
  /\ s2_input = NoInput
  /\ solved_calls = 0
  /\ probe = NoProbe
  /\ llm_solver = [model |-> "mistral"]
  /\ stream = <<>>

NoValidation ==
  [code |-> <<>>, raised |-> FALSE, is_valid |-> FALSE, status_msg |-> "",
   error |-> "", waited |-> 0]

\* nothing created, nothing submitted; gap is the time between the last two
\* tester.test invocations, counted up to the cooldown
NoTesterLog ==
  [created |-> 0, unavailable |-> FALSE, tests |-> 0, at |-> 0,
   raised |-> FALSE, gap |-> 0]

\* validator module at import: no tester yet, no submission yet, and a
\* clock that is at least the cooldown past the epoch
ValidatorInit ==
  /\ tester_instance = FALSE
  /\ last_submission_time = 0
  /\ now = SUBMISSION_COOLDOWN
  /\ validation = NoValidation
  /\ tester_log = NoTesterLog

\* CodeDebuggingDomain() and MCModule(domain): neither looks at the
\* credential, so the controller exists with it set or missing
Init ==
  /\ ControllerInit
  /\ main = NoMain
  /\ ValidatorInit
  /\ leetcode_session \in BOOLEAN
  /\ tester_available = TRUE

\* variant: the evaluator of the previous call is kept
ReusedTrendEvaluator == trend_evaluator

\* ImprovementTrendEvaluator(): the evaluator created for this call
NewTrendEvaluator == <<>>

\* solve(), entry: the locals and a fresh trend evaluator
Solve(p, v) ==
  /\ pc \in {"idle"} \cup Terminal
  /\ solves < MaxSolves
  /\ solves' = solves + 1
  /\ problem' = p
  /\ verbose' = v
  /\ s2_time' = 0
  /\ iteration' = 0
  /\ s1_solved' = FALSE
  /\ s2_solved' = FALSE
  /\ solution' = NoSolution
  /\ trend_evaluator' = NewTrendEvaluator
  /\ problem_repr' = <<>>
  /\ episodic_examples' = <<>>
  /\ messages' = <<>>
  /\ llm_response' = NoResponse
  /\ is_valid' = FALSE
  /\ feedback' = NoFeedback
  /\ result' = NoOutcome
  /\ mem_start' = memory
  /\ retrieved' = FALSE
  /\ s1_inputs' = <<>>
  /\ s1_outputs' = <<>>
  /\ val_log' = <<>>
  /\ s1_calls' = 0
  /\ s2_calls' = 0
  /\ s2_mark' = NoMark
  /\ s2_input' = NoInput
  /\ probe' = NoProbe
  /\ stream' = <<>>
  /\ pc' = "init"
  /\ UNCHANGED << max_iterations, memory, solved_calls, main,
                  validator_vars,
                  llm_solver >>

\* variant: the problem is stored before it is solved, then retrieved
PrepareAddsFirst ==
  /\ pc = "init"
  /\ problem_repr' = get_problem_representation(problem)
  /\ memory' = add_memory(memory, problem_repr',
                          format_solution_for_memory(NoSolution))
  /\ retrieved' = TRUE
  /\ episodic_examples' = retrieve_similar(memory', problem_repr', RetrieveK)
  /\ messages' =
       << [role |-> "user",
           content |-> build_prompt(problem, episodic_examples')] >>
  /\ pc' = "loop"
  /\ UNCHANGED << ctl, probe, main, client_vars, validator_vars,
                  iteration, s1_solved, s2_solved, solution,
                  s2_time, llm_response, is_valid, feedback, trend_evaluator,
                  result, mem_start, s1_inputs, s1_outputs, val_log, s1_calls,
                  s2_calls, s2_mark, s2_input, solved_calls >>

\* variant: retrieval is attempted without the emptiness test
PrepareAlwaysRetrieves ==
  /\ pc = "init"
  /\ problem_repr' = get_problem_representation(problem)
  /\ retrieved' = TRUE
  /\ episodic_examples' = retrieve_similar(memory, problem_repr', RetrieveK)
  /\ messages' =
       << [role |-> "user",
           content |-> build_prompt(problem, episodic_examples')] >>
  /\ pc' = "loop"
  /\ UNCHANGED << ctl, probe, main, client_vars, validator_vars,
                  memory, iteration, s1_solved, s2_solved, solution,
                  s2_time, llm_response, is_valid, feedback, trend_evaluator,
                  result, mem_start, s1_inputs, s1_outputs, val_log, s1_calls,
                  s2_calls, s2_mark, s2_input, solved_calls >>

\* solve(): problem representation, optional retrieval, initial prompt
Prepare ==
  /\ pc = "init"
  /\ problem_repr' = get_problem_representation(problem)
  /\ retrieved' = (memory # <<>>)
  /\ episodic_examples' =
       IF memory # <<>>
       THEN retrieve_similar(memory, problem_repr', RetrieveK)
       ELSE <<>>
  /\ messages' =
       << [role |-> "user",
           content |-> build_prompt(problem, episodic_examples')] >>
  /\ pc' = "loop"
  /\ UNCHANGED << ctl, probe, main, client_vars, validator_vars,
                  memory, iteration, s1_solved, s2_solved, solution,
                  s2_time, llm_response, is_valid, feedback, trend_evaluator,
                  result, mem_start, s1_inputs, s1_outputs, val_log, s1_calls,
                  s2_calls, s2_mark, s2_input, solved_calls >>

\* variants of the loop condition: one round too many, and a test for
\* inequality instead of order
LoopConditionInclusive(it, maxit) == it <= maxit

LoopConditionNotEqual(it, maxit) == it # maxit

\* the while condition of the refinement loop
LoopCondition(it, maxit) == it < maxit

\* loop head, condition true: count the iteration and ask the S1 agent
S1Generate ==
  /\ pc = "loop"
  /\ LoopCondition(iteration, max_iterations)
  /\ iteration' = iteration + 1
  /\ \E chunks \in Streams :
       LET out == generate_response(llm_solver, messages, chunks)
       IN /\ llm_response' = out.response
          /\ messages' = out.messages
          /\ llm_solver' = out.solver
          /\ stream' = chunks
  /\ s1_inputs' = Append(s1_inputs, messages)
  /\ s1_outputs' = Append(s1_outputs, llm_response')
  /\ s1_calls' = s1_calls + 1
  /\ pc' = "s1_returned"
  /\ UNCHANGED << ctl, probe, main, validator_vars,
                  memory, problem_repr, episodic_examples,
                  s1_solved, s2_solved, solution, s2_time, is_valid, feedback,
                  trend_evaluator, result, mem_start, retrieved, val_log,
                  s2_calls, s2_mark, s2_input, solved_calls >>

\* variant: a failed agent call is caught and the loop goes on
S1FailsRetries ==
  /\ pc = "loop"
  /\ LoopCondition(iteration, max_iterations)
  /\ iteration' = iteration + 1
  /\ s1_inputs' = Append(s1_inputs, messages)
  /\ s1_calls' = s1_calls + 1
  /\ pc' = "loop"
  /\ UNCHANGED << ctl, probe, main, client_vars, validator_vars,
                  memory, problem_repr, episodic_examples, messages,
                  s1_solved, s2_solved, solution, s2_time, llm_response,
                  is_valid, feedback, trend_evaluator, result, mem_start,
                  retrieved, s1_outputs, val_log, s2_calls, s2_mark, s2_input,
                  solved_calls >>

\* loop head, condition true: the agent client raises
S1Fails ==
  /\ pc = "loop"
  /\ LoopCondition(iteration, max_iterations)
  /\ iteration' = iteration + 1
  /\ s1_inputs' = Append(s1_inputs, messages)
  /\ s1_calls' = s1_calls + 1
  /\ pc' = "raised"
  /\ UNCHANGED << ctl, probe, main, client_vars, validator_vars,
                  memory, problem_repr, episodic_examples, messages,
                  s1_solved, s2_solved, solution, s2_time, llm_response,
                  is_valid, feedback, trend_evaluator, result, mem_start,
                  retrieved, s1_outputs, val_log, s2_calls, s2_mark, s2_input,
                  solved_calls >>

\* variant: a loop that ends without a solution falls through to System 2
LoopExhaustedEscalates ==
  /\ pc = "loop"
  /\ ~LoopCondition(iteration, max_iterations)
  /\ pc' = "escalate"
  /\ UNCHANGED << ctl, probe, main, client_vars, validator_vars,
                  memory, problem_repr, episodic_examples, messages,
                  iteration, s1_solved, s2_solved, solution, s2_time,
                  llm_response, is_valid, feedback, trend_evaluator, result,
                  obs >>

\* loop head, condition false: fall out of the loop
LoopExhausted ==
  /\ pc = "loop"
  /\ ~LoopCondition(iteration, max_iterations)
  /\ pc' = "done"
  /\ UNCHANGED << ctl, probe, main, client_vars, validator_vars,
                  memory, problem_repr, episodic_examples, messages,
                  iteration, s1_solved, s2_solved, solution, s2_time,
                  llm_response, is_valid, feedback, trend_evaluator, result,
                  obs >>

\* variant: validation that does not depend on the credential
validate_solution_any_session(p, s) == tester_test(p, s)

\* CodeDebuggingDomain.validate_solution as the controller sees it: with no
\* credential no tester is ever created and every call reports the
\* environment error; with it, the judge answers
validate_solution(p, s) ==
  IF leetcode_session THEN tester_test(p, s)
  ELSE {<<FALSE, EnvironmentErrorFeedback>>}

\* parse the response and validate the candidate
ParseValidate ==
  /\ pc = "s1_returned"
  /\ solution' = parse_solution(llm_response)
  /\ \E out \in validate_solution(problem, solution') :
       /\ is_valid' = out[1]
       /\ feedback' = out[2]
  /\ val_log' = Append(val_log, [iteration |-> iteration,
                                 solution |-> solution',
                                 is_valid |-> is_valid',
                                 feedback |-> feedback'])
  /\ pc' = "validated"
  /\ UNCHANGED << ctl, probe, main, client_vars, validator_vars,
                  memory, problem_repr, episodic_examples, messages,
                  iteration, s1_solved, s2_solved, s2_time, llm_response,
                  trend_evaluator, result, mem_start, retrieved, s1_inputs,
                  s1_outputs, s1_calls, s2_calls, s2_mark, s2_input,
                  solved_calls >>

\* variant: a pair already stored is not stored again
RecordSolutionOnce(mem, prob_repr, sol) ==
  LET e == <<prob_repr, format_solution_for_memory(sol)>>
  IN IF \E i \in 1 .. Len(mem) : mem[i] = e THEN mem ELSE Append(mem, e)

\* variant: the store is rebuilt from the new pair alone
RecordSolutionResets(mem, prob_repr, sol) ==
  << <<prob_repr, format_solution_for_memory(sol)>> >>

\* store the solved pair: format the solution, then add_memory
RecordSolution(mem, prob_repr, sol) ==
  add_memory(mem, prob_repr, format_solution_for_memory(sol))

\* variant: the loop is not left after a valid candidate
AcceptS1NoBreak ==
  /\ pc = "validated"
  /\ is_valid
  /\ s1_solved' = TRUE
  /\ memory' = RecordSolution(memory, problem_repr, solution)
  /\ pc' = "loop"
  /\ UNCHANGED << ctl, probe, main, client_vars, validator_vars,
                  problem_repr, episodic_examples, messages, iteration,
                  s2_solved, solution, s2_time, llm_response, is_valid,
                  feedback, trend_evaluator, result, obs >>

\* valid candidate: record it in memory and leave the loop
AcceptS1 ==
  /\ pc = "validated"
  /\ is_valid
  /\ s1_solved' = TRUE
  /\ memory' = RecordSolution(memory, problem_repr, solution)
  /\ pc' = "done"
  /\ UNCHANGED << ctl, probe, main, client_vars, validator_vars,
                  problem_repr, episodic_examples, messages, iteration,
                  s2_solved, solution, s2_time, llm_response, is_valid,
                  feedback, trend_evaluator, result, obs >>

\* variants of the escalation test: the trend alone, the limit alone,
\* both at once
ShouldEscalateTrendOnly(it, maxit, flag) == flag

ShouldEscalateLimitOnly(it, maxit, flag) == it = maxit

ShouldEscalateBoth(it, maxit, flag) == it = maxit /\ flag

\* the escalation test
ShouldEscalate(it, maxit, flag) == it = maxit \/ flag

\* variant: the response is not kept, only the feedback turn is added
ContinueRefinementFeedbackOnly(msgs, response, fb) ==
  msgs \o << [role |-> "user",
              content |-> <<"Feedback: ", format_feedback(fb)>>] >>

\* the conversation after one more refinement round
ContinueRefinement(msgs, response, fb) ==
  msgs \o << [role |-> "assistant", content |-> response],
             [role |-> "user",
              content |-> <<"Feedback: ", format_feedback(fb)>>] >>

\* invalid candidate: update the trend, then escalate or extend the
\* conversation and go round again
RejectS1 ==
  /\ pc = "validated"
  /\ ~is_valid
  /\ trend_evaluator' = update_feedback(trend_evaluator, feedback)
  /\ IF ShouldEscalate(iteration, max_iterations,
                       get_no_improvement_flag(trend_evaluator'))
     THEN /\ pc' = "escalate"
          /\ UNCHANGED messages
     ELSE /\ messages' = ContinueRefinement(messages, llm_response, feedback)
          /\ pc' = "loop"
  /\ UNCHANGED << ctl, probe, main, client_vars, validator_vars,
                  memory, problem_repr, episodic_examples, iteration,
                  s1_solved, s2_solved, solution, s2_time, llm_response,
                  is_valid, feedback, result, obs >>

\* variant: the last S1 candidate is kept
EscalatedSolutionKeepsCandidate(candidate, s2_solution) == candidate

\* the solution kept after run_s2_solver returned
EscalatedSolution(candidate, s2_solution) == s2_solution

\* the client handed to run_s2_solver
S2Client == "s2_llm_solver"

\* variant: System 2 continues the S1 conversation
run_s2_solver_request_shared(p, solver) ==
  [client |-> solver, messages |-> messages]

\* run_s2_solver: what it sends, and to which client
run_s2_solver_request(p, solver) ==
  [client |-> solver,
   messages |-> << [role |-> "user", content |-> build_prompt(p, <<>>)] >>]

\* escalation: run System 2, take its result as final, record it
RunS2 ==
  /\ pc = "escalate"
  /\ \E s2_solution \in S2Solutions, d \in 0 .. MaxElapsed :
       /\ solution' = EscalatedSolution(solution, s2_solution)
       /\ s2_time' = d
       /\ s2_mark' = [at |-> iteration, s1 |-> s1_calls,
                      vals |-> Len(val_log), solution |-> s2_solution]
  /\ s2_input' = run_s2_solver_request(problem, S2Client)
  /\ s2_solved' = TRUE
  /\ s2_calls' = s2_calls + 1
  /\ memory' = RecordSolution(memory, problem_repr, solution')
  /\ pc' = "done"
  /\ UNCHANGED << ctl, probe, main, client_vars, validator_vars,
                  problem_repr, episodic_examples, messages, iteration,
                  s1_solved, llm_response, is_valid, feedback,
                  trend_evaluator, result, mem_start, retrieved, s1_inputs,
                  s1_outputs, val_log, s1_calls, solved_calls >>

\* escalation: the S2 agent client raises inside run_s2_solver
S2Fails ==
  /\ pc = "escalate"
  /\ s2_calls' = s2_calls + 1
  /\ s2_input' = run_s2_solver_request(problem, S2Client)
  /\ pc' = "raised"
  /\ UNCHANGED << ctl, probe, main, client_vars, validator_vars,
                  memory, problem_repr, episodic_examples, messages,
                  iteration, s1_solved, s2_solved, solution, s2_time,
                  llm_response, is_valid, feedback, trend_evaluator, result,
                  mem_start, retrieved, s1_inputs, s1_outputs, val_log,
                  s1_calls, s2_mark, solved_calls >>

\* variant: the escalation is counted as one more iteration
OutcomeCountsEscalation(s1, s2, sol, it, t2) ==
  [solved |-> s1 \/ s2, solution |-> sol, s1_solved |-> s1,
   s2_solved |-> s2, iterations |-> IF s2 THEN it + 1 ELSE it,
   s2_time |-> t2]

\* variant: every returned outcome is reported as solved
OutcomeAlwaysSolved(s1, s2, sol, it, t2) ==
  [solved |-> TRUE, solution |-> sol, s1_solved |-> s1,
   s2_solved |-> s2, iterations |-> it, s2_time |-> t2]

\* variant: solved reports the S1 tier only
OutcomeS1Only(s1, s2, sol, it, t2) ==
  [solved |-> s1, solution |-> sol, s1_solved |-> s1,
   s2_solved |-> s2, iterations |-> it, s2_time |-> t2]

\* the returned dict
Outcome(s1, s2, sol, it, t2) ==
  [solved |-> s1 \/ s2, solution |-> sol, s1_solved |-> s1,
   s2_solved |-> s2, iterations |-> it, s2_time |-> t2]

\* after the loop: build and return the outcome
Return ==
  /\ pc = "done"
  /\ result' = Outcome(s1_solved, s2_solved, solution, iteration, s2_time)
  /\ solved_calls' = IF result'.solved THEN solved_calls + 1 ELSE solved_calls
  /\ pc' = "returned"
  /\ UNCHANGED << ctl, probe, main, client_vars, validator_vars,
                  memory, problem_repr, episodic_examples, messages,
                  iteration, s1_solved, s2_solved, solution, s2_time,
                  llm_response, is_valid, feedback, trend_evaluator,
                  mem_start, retrieved, s1_inputs, s1_outputs, val_log,
                  s1_calls, s2_calls, s2_mark, s2_input >>

\* a domain or memory call of the current step raises: solve() propagates it
Raise ==
  /\ pc \in {"init", "s1_returned", "validated"}
  /\ pc' = "raised"
  /\ UNCHANGED << ctl, probe, main, client_vars, validator_vars,
                  memory, problem_repr, episodic_examples, messages,
                  iteration, s1_solved, s2_solved, solution, s2_time,
                  llm_response, is_valid, feedback, trend_evaluator, result,
                  obs >>

\* the steps of a running solve() call
Step ==
  \/ Prepare
  \/ S1Generate
  \/ S1Fails
  \/ LoopExhausted
  \/ ParseValidate
  \/ AcceptS1
  \/ RejectS1
  \/ RunS2
  \/ S2Fails
  \/ Return
  \/ Raise

\* the locals of solve() and the observations, outside a call
idle_vars ==
  << max_iterations, memory, pc, solves, problem, verbose, problem_repr,
     episodic_examples, messages, iteration, s1_solved, s2_solved, solution,
     s2_time, llm_response, is_valid, feedback, trend_evaluator, result,
     mem_start, retrieved, s1_inputs, s1_outputs, val_log, s1_calls,
     s2_calls, s2_mark, s2_input, solved_calls, client_vars >>

\* parse_fixed_code applied to an agent text, before the controller is used
ParseFixedCode ==
  /\ pc = "idle"
  /\ probe = NoProbe
  /\ \E t \in Texts :
       probe' = [NoProbe EXCEPT !.parser = "parse_fixed_code",
                               !.response = t,
                               !.fixed_code = parse_fixed_code(t)]
  /\ UNCHANGED << idle_vars, validator_vars, main >>

\* the graph-coloring parse_solution applied to an agent text
ParseColoring ==
  /\ pc = "idle"
  /\ probe = NoProbe
  /\ \E lines \in ColoringTexts, int_limited \in BOOLEAN :
       probe' = [NoProbe EXCEPT !.parser = "parse_solution",
                               !.lines = lines,
                               !.coloring =
                                 parse_coloring(lines, int_limited)]
  /\ UNCHANGED << idle_vars, validator_vars, main >>

\* ------------------------------------------------- memory on its own
\* the locals of solve(), the observations and the validator: untouched
\* while the memory is used on its own
memory_frame ==
  << max_iterations, pc, solves, problem, verbose, problem_repr,
     episodic_examples, messages, iteration, s1_solved, s2_solved, solution,
     s2_time, llm_response, is_valid, feedback, trend_evaluator, result,
     mem_start, retrieved, s1_inputs, s1_outputs, val_log, s1_calls,
     s2_calls, s2_mark, s2_input, solved_calls, client_vars,
     validator_vars, main >>

Retrieval(mem, query, k) ==
  LET out == retrieve_similar_call(mem, query, k)
  IN [done |-> TRUE, raised |-> out.raised, entries |-> out.entries]

\* add_memory on a memory of its own
AddMemory ==
  /\ Len(memory) < MaxEntries
  /\ \E prob_repr \in Representations :
       memory' = add_memory(memory, prob_repr,
                            format_solution_for_memory(<<"fix">>))
  /\ probe' = NoProbe
  /\ UNCHANGED memory_frame

\* retrieve_similar(query, k) on a memory of its own
RetrieveSimilar ==
  /\ \E query \in Queries, k \in 0 .. MaxK :
       /\ probe' = [NoProbe EXCEPT !.parser = "retrieve_similar",
                                  !.query = query, !.k = k, !.store = memory,
                                  !.retrieved = Retrieval(memory, query, k)]
       /\ memory' = retrieve_similar_store(memory, query, k)
  /\ UNCHANGED memory_frame

\* the same retrieve_similar(query, k) once more, nothing added in between
RetrieveAgain ==
  /\ probe.parser = "retrieve_similar"
  /\ ~probe.again.done
  /\ probe' = [probe EXCEPT !.again = Retrieval(memory, probe.query, probe.k)]
  /\ memory' = retrieve_similar_store(memory, probe.query, probe.k)
  /\ UNCHANGED memory_frame

\* EpisodicMemory(): an empty store
MemoryStart ==
  /\ ControllerInit
  /\ main = NoMain
  /\ max_iterations = MaxIter
  /\ ValidatorInit
  /\ leetcode_session = TRUE
  /\ tester_available = TRUE

MemoryNext == AddMemory \/ RetrieveSimilar \/ RetrieveAgain

MemorySpec == MemoryStart /\ [][MemoryNext]_vars

\* ------------------------------------------------------------ validator
\* exceptions that are OSError, which EnvironmentError names
OSErrors == {"EnvironmentError", "ConnectionError"}

\* what tester.test may do with a submission: return (reward, result), the
\* result possibly not a mapping, or raise
TestOutcomes(code) ==
  { [kind |-> "returns", reward |-> r, status_msg |-> m, exc |-> ""] :
      r \in BOOLEAN,
      m \in IF code = <<"fix">> THEN {"Accepted", "Wrong Answer"}
            ELSE {"Wrong Answer"} }
  \cup { [kind |-> "malformed", reward |-> FALSE, status_msg |-> "",
          exc |-> "AttributeError"] }
  \cup { [kind |-> "raises", reward |-> FALSE, status_msg |-> "", exc |-> e] :
          e \in {"ConnectionError", "RuntimeError"} }

\* variant: only the environment error is handled
HandledOnlyEnvironment(code, exc, wait) ==
  [code |-> code, raised |-> exc \notin OSErrors, is_valid |-> FALSE,
   status_msg |-> IF exc \in OSErrors THEN "Environment Error" ELSE "",
   error |-> exc, waited |-> wait]

\* the two except clauses of validate_code_with_leetcode
Handled(code, exc, wait) ==
  [code |-> code, raised |-> FALSE, is_valid |-> FALSE,
   status_msg |-> IF exc \in OSErrors THEN "Environment Error"
                  ELSE "Validation Error",
   error |-> exc, waited |-> wait]

\* time.sleep for the rest of the cooldown: the clock after it
AfterCooldown ==
  IF now - last_submission_time < SUBMISSION_COOLDOWN
  THEN last_submission_time + SUBMISSION_COOLDOWN
  ELSE now

\* variant: no singleton test, the credential is checked and a tester is
\* created on every call
get_leetcode_tester_no_cache ==
  IF ~leetcode_session THEN "EnvironmentError"
  ELSE IF ~tester_available THEN "ImportError"
  ELSE "created"

\* get_leetcode_tester: the existing instance, a new one, or what it raises
get_leetcode_tester ==
  IF tester_instance THEN "instance"
  ELSE IF ~leetcode_session THEN "EnvironmentError"
  ELSE IF ~tester_available THEN "ImportError"
  ELSE "created"

\* the log after a call that did not reach tester.test
Logged(unavailable) ==
  [tester_log EXCEPT !.unavailable = @ \/ unavailable]

\* variant: the submission time is taken in every case
SubmissionTimeAlways(raised, finished) == finished

\* _last_submission_time after tester.test: line 77 is not reached when
\* the call raised
SubmissionTime(raised, finished) ==
  IF raised THEN last_submission_time ELSE finished

\* get_leetcode_tester raises: no credential, or no tester class
TesterUnavailable(code) ==
  /\ get_leetcode_tester \in {"EnvironmentError", "ImportError"}
  /\ now' = AfterCooldown
  /\ validation' = Handled(code, get_leetcode_tester, AfterCooldown - now)
  /\ tester_log' = Logged(TRUE)
  /\ UNCHANGED << leetcode_session, tester_available, tester_instance,
                  last_submission_time >>

\* get_leetcode_tester raises: LeetCodeTester() itself fails
TesterConstructionFails(code) ==
  /\ get_leetcode_tester = "created"
  /\ now' = AfterCooldown
  /\ validation' = Handled(code, "RuntimeError", AfterCooldown - now)
  /\ tester_log' = Logged(FALSE)
  /\ UNCHANGED << leetcode_session, tester_available, tester_instance,
                  last_submission_time >>

\* the tester exists or is created, and the submission is made
Submitted(code) ==
  /\ get_leetcode_tester \in {"instance", "created"}
  /\ tester_instance' = TRUE
  /\ \E out \in TestOutcomes(code), d \in 0 .. MaxElapsed :
       /\ now' = AfterCooldown + d
       /\ now' <= MaxClock
       /\ last_submission_time' = SubmissionTime(out.kind = "raises", now')
       /\ validation' =
            IF out.kind = "returns"
            THEN [code |-> code, raised |-> FALSE,
                  is_valid |-> out.reward /\ out.status_msg = "Accepted",
                  status_msg |-> out.status_msg, error |-> "",
                  waited |-> AfterCooldown - now]
            ELSE Handled(code, out.exc, AfterCooldown - now)
       /\ tester_log' =
            [created |-> tester_log.created
                           + (IF get_leetcode_tester = "created" THEN 1
                              ELSE 0),
             unavailable |-> tester_log.unavailable,
             tests |-> Min(tester_log.tests + 1, 2),
             at |-> AfterCooldown,
             raised |-> out.kind = "raises",
             gap |-> IF tester_log.tests = 0 THEN 0
                     ELSE Min(AfterCooldown - tester_log.at,
                              SUBMISSION_COOLDOWN)]
  /\ UNCHANGED << leetcode_session, tester_available >>

\* validate_code_with_leetcode, the whole call
validate_code_with_leetcode(code) ==
  /\ \/ TesterUnavailable(code)
     \/ TesterConstructionFails(code)
     \/ Submitted(code)
  /\ UNCHANGED << idle_vars, probe, main >>

\* the clock between two validations
Tick ==
  /\ now < MaxClock
  /\ now' = now + 1
  /\ UNCHANGED << idle_vars, probe, main, leetcode_session, tester_available,
                  tester_instance, last_submission_time, validation,
                  tester_log >>

\* os.environ between two validations: LEETCODE_SESSION is set or removed
Environ ==
  /\ leetcode_session' = ~leetcode_session
  /\ UNCHANGED << idle_vars, probe, main, tester_available, tester_instance,
                  last_submission_time, now, validation, tester_log >>

\* the validator module in a process with or without credential and class
ValidatorStart ==
  /\ ControllerInit
  /\ main = NoMain
  /\ max_iterations = MaxIter
  /\ ValidatorInit
  /\ leetcode_session \in BOOLEAN
  /\ tester_available \in BOOLEAN

ValidatorNext ==
  \/ \E code \in {<<"fix">>, <<"bug">>, <<>>} :
       validate_code_with_leetcode(code)
  \/ Tick
  \/ Environ

ValidatorSpec == ValidatorStart /\ [][ValidatorNext]_vars

\* ------------------------------------------------- parser on its own
\* agent texts long enough to hold a pair of tags around a word inside a
\* pair of fences
ResponseTexts == UNION {[1 .. n -> CodeTokens] : n \in 0 .. MaxResponseLen}

\* parse_fixed_code applied to one agent text
ParseResponse ==
  /\ probe = NoProbe
  /\ \E t \in ResponseTexts :
       probe' = [NoProbe EXCEPT !.parser = "parse_fixed_code",
                               !.response = t,
                               !.fixed_code = parse_fixed_code(t)]
  /\ UNCHANGED << idle_vars, validator_vars, main >>

ParserStart ==
  /\ ControllerInit
  /\ main = NoMain
  /\ max_iterations = MaxIter
  /\ ValidatorInit
  /\ leetcode_session = TRUE
  /\ tester_available = TRUE

ParserNext == ParseResponse

ParserSpec == ParserStart /\ [][ParserNext]_vars

\* ----------------------------------------------------------------- main
\* the DebugBench bug types (two of the seventeen) and the files' lengths
BUG_TYPES == {"condition error", "double"}

MaxData == 2

\* --bug-type: absent, a bug type, or the name the help text suggests
BugTypeChoices == {"None"} \cup BUG_TYPES \cup {"condition"}

\* --problem-index: absent, or any integer
IndexChoices ==
  {NoIndex}
  \cup {[given |-> TRUE, value |-> i] : i \in -(MaxData + 1) .. MaxData + 1}

\* the command lines: --domain, --max-iterations, --s2-lrm, --bug-type,
\* --problem-index, --verbose; --s1-llm is left at its default
CommandLines ==
  [domain : {"graph_coloring", "code_debugging", "sudoku"},
   s1_llm : {"gemma3:1b"},
   s2_lrm : {"deepseek-r1:1.5b", "gemma3:1b"},
   max_iterations : IterationChoices,
   bug_type : BugTypeChoices,
   problem_index : IndexChoices,
   verbose : BOOLEAN]

\* data[i] on a list of n items: the position read, or IndexError
list_getitem(n, i) ==
  IF i >= n \/ i < -n THEN [raised |-> "IndexError", item |-> -1]
  ELSE [raised |-> "", item |-> IF i < 0 THEN i + n ELSE i]

\* load_problem_from_dataset: what it raises and at which line, or the
\* position in data the problem is built from; exists and n describe the
\* dataset file, pick is what random.randint returns
load_problem_from_dataset(bug_type, problem_index, exists, n, pick) ==
  IF bug_type # "None" /\ bug_type \notin BUG_TYPES
  THEN [called |-> TRUE, raised |-> "ValueError", line |-> 47, item |-> -1,
        data_len |-> n]
  ELSE IF ~exists
  THEN [called |-> TRUE, raised |-> "FileNotFoundError", line |-> 55,
        item |-> -1, data_len |-> n]
  ELSE IF ~problem_index.given
  THEN IF n = 0
       THEN [called |-> TRUE, raised |-> "ValueError", line |-> 63,
             item |-> -1, data_len |-> n]
       ELSE [called |-> TRUE, raised |-> "", line |-> 67, item |-> pick,
             data_len |-> n]
  ELSE IF problem_index.value >= n
  THEN [called |-> TRUE, raised |-> "ValueError", line |-> 65, item |-> -1,
        data_len |-> n]
  ELSE [called |-> TRUE, raised |-> list_getitem(n, problem_index.value).raised,
        line |-> 67, item |-> list_getitem(n, problem_index.value).item,
        data_len |-> n]

\* the parameters MCModule.__init__ declares besides self
MCModule_init_params ==
  {"domain", "llm_model", "max_iterations", "s2_llm_model"}

\* the keywords main passes to MCModule
MCModule_call_keywords == {"domain", "s1_llm", "max_iterations", "s2_lrm"}

\* a call with keyword arguments: TypeError for a keyword the function does
\* not declare
call_with_keywords(params, keywords) ==
  IF keywords \subseteq params THEN "" ELSE "TypeError"

\* the controller, the validator and the parsers: not touched by main before
\* the controller exists
main_frame == << idle_vars, validator_vars, probe >>

\* parser.parse_args(): argparse leaves with status 2 for a --domain that is
\* not among the choices
ParseArgs ==
  /\ main.pc = "start"
  /\ \E a \in CommandLines :
       main' = IF a.domain \in {"graph_coloring", "code_debugging"}
               THEN [main EXCEPT !.pc = "parsed", !.args = a]
               ELSE [main EXCEPT !.pc = "exit", !.args = a,
                                 !.error = "SystemExit"]
  /\ UNCHANGED main_frame

\* ensure_ollama_running, ensure_model_available (both catch what they
\* raise) and the choice of the domain object
SelectDomain ==
  /\ main.pc = "parsed"
  /\ main' = [main EXCEPT !.pc = "domain", !.domain = main.args.domain]
  /\ UNCHANGED main_frame

\* domain.generate_problem(**problem_kwargs): a generated graph, or a
\* problem loaded from the dataset file of the bug type
GenerateProblem ==
  /\ main.pc = "domain"
  /\ IF main.domain = "graph_coloring"
     THEN main' = [main EXCEPT !.pc = "generated", !.problems = @ + 1]
     ELSE \E exists \in BOOLEAN, n \in 0 .. MaxData :
            \E pick \in 0 .. Max(n - 1, 0) :
              LET out == load_problem_from_dataset(main.args.bug_type,
                           main.args.problem_index, exists, n, pick)
              IN main' = IF out.raised # ""
                         THEN [main EXCEPT !.pc = "raised",
                                           !.loaded = out,
                                           !.error = out.raised]
                         ELSE [main EXCEPT !.pc = "generated",
                                           !.loaded = out,
                                           !.problems = @ + 1]
  /\ UNCHANGED main_frame

\* mc = MCModule(domain=..., s1_llm=..., max_iterations=..., s2_lrm=...)
ConstructController ==
  /\ main.pc = "generated"
  /\ main' =
       IF call_with_keywords(MCModule_init_params, MCModule_call_keywords)
            # ""
       THEN [main EXCEPT !.pc = "raised",
                         !.error = call_with_keywords(MCModule_init_params,
                                     MCModule_call_keywords)]
       ELSE [main EXCEPT !.pc = "constructed",
                         !.mc = [constructed |-> TRUE,
                                 llm_model |-> main.args.s1_llm,
                                 s2_llm_model |-> main.args.s2_lrm,
                                 max_iterations |-> main.args.max_iterations]]
  /\ UNCHANGED main_frame

\* the interpreter starts main() before any controller exists
MainStart ==
  /\ ControllerInit
  /\ main = NoMain
  /\ max_iterations = MaxIter
  /\ ValidatorInit
  /\ leetcode_session \in BOOLEAN
  /\ tester_available = TRUE

\* mc.solve (line 211) is called on a constructed controller only; no run of
\* main gets there
MainNext == ParseArgs \/ SelectDomain \/ GenerateProblem \/ ConstructController

MainSpec == MainStart /\ [][MainNext]_vars

Next ==
  \/ \E p \in Problems, v \in BOOLEAN : Solve(p, v)
  \/ Step
  \/ ParseFixedCode
  \/ ParseColoring

Spec == Init /\ [][Next]_vars

\* a started call is never abandoned by the interpreter: it keeps running
LiveSpec == Spec /\ WF_vars(Step)

\* ====================================================== properties
Running == pc \notin ({"idle"} \cup Terminal)

\* every validation so far failed
AllInvalid == \A k \in 1 .. Len(val_log) : ~val_log[k].is_valid

\* C1, as stated: in every solve call the S1 agent is called at most
\* max_iterations times and System 2 at most once.
C1_Original ==
  pc # "idle" => s1_calls <= max_iterations /\ s2_calls <= 1

\* C1, amended: the S1 agent is called at most max(max_iterations, 0) times
\* (a negative max_iterations gives zero calls), System 2 at most once.
C1_CallsBounded ==
  /\ s1_calls <= Max(max_iterations, 0)
  /\ s2_calls <= 1

C1_Witness ==
  /\ pc = "returned"
  /\ max_iterations >= 3
  /\ s1_calls = max_iterations
  /\ s2_calls = 1

\* steps a running call can still take: 4 per remaining round plus the
\* position inside the round
Measure ==
  LET rem == Max(max_iterations - iteration, 0) IN
  CASE pc = "init" -> 4 * rem + 7
    [] pc = "s1_returned" -> 4 * rem + 6
    [] pc = "validated" -> 4 * rem + 5
    [] pc = "loop" -> 4 * rem + 3
    [] pc = "escalate" -> 4 * rem + 2
    [] pc = "done" -> 4 * rem + 1
    [] OTHER -> 0

\* C2: every solve call reaches a terminal state (returned or raised): each
\* step of a running call strictly lowers a non-negative measure, and a
\* started call eventually returns or raises.
C2_Terminates ==
  /\ [][Running => Measure' < Measure]_vars
  /\ [](Measure >= 0)
  /\ (pc = "init") ~> (pc \in Terminal)

C2_Witness ==
  /\ pc = "returned"
  /\ max_iterations >= 2
  /\ iteration = max_iterations
  /\ s1_solved

\* C3: when validation failed on every iteration 1..max_iterations, System 2
\* is invoked in iteration max_iterations whatever the trend flag says, and
\* the outcome has s2_solved and iterations = max_iterations (one S1 call
\* and one S2 call when max_iterations = 1).
C3_EscalatesAtLimit ==
  (max_iterations >= 1 /\ Len(val_log) = max_iterations /\ AllInvalid
     /\ pc \notin {"validated", "raised"})
  => /\ pc \in {"escalate", "done", "returned"}
     /\ s1_calls = max_iterations
     /\ pc \in {"done", "returned"}
          => s2_calls = 1 /\ s2_mark.at = max_iterations /\ s2_solved
     /\ pc = "returned"
          => /\ result.s2_solved
             /\ ~result.s1_solved
             /\ result.iterations = max_iterations

C3_Witness ==
  /\ pc = "returned"
  /\ max_iterations >= 2
  /\ Len(val_log) = max_iterations
  /\ AllInvalid
  /\ ~get_no_improvement_flag(trend_evaluator)
  /\ result.s2_solved
  /\ result.iterations = max_iterations

\* C4: when validation first succeeds on iteration i, solve returns
\* solved, s1_solved, not s2_solved, iterations = i, the validated
\* candidate as solution, s2_time = 0, and System 2 is never invoked.
C4_S1Success ==
  \A i \in 1 .. Len(val_log) :
    val_log[i].is_valid
    => /\ i = Len(val_log)
       /\ val_log[i].iteration = i
       /\ pc \in {"validated", "done", "returned", "raised"}
       /\ s2_calls = 0
       /\ s2_time = 0
       /\ pc = "returned"
            => /\ result.solved
               /\ result.s1_solved
               /\ ~result.s2_solved
               /\ result.iterations = i
               /\ result.solution = val_log[i].solution
               /\ result.s2_time = 0

C4_Witness ==
  /\ pc = "returned"
  /\ Len(val_log) = 2
  /\ val_log[2].is_valid
  /\ result.iterations = 2

\* C5, as stated: for every max_iterations the constructor accepts, a solve
\* call that returns has solved = true; solved = false with solution None
\* is never returned.
C5_Original ==
  pc = "returned" => result.solved /\ result.solution # NoSolution

\* C5, amended: for every max_iterations >= 1 a solve call that returns has
\* solved = true with tier S1 or S2 and a solution that is not None.
C5_SolvedWhenPositive ==
  (pc = "returned" /\ max_iterations >= 1)
  => /\ result.solved
     /\ result.s1_solved \/ result.s2_solved
     /\ result.solution # NoSolution

C5_Witness ==
  /\ pc = "returned"
  /\ max_iterations >= 1
  /\ result.s2_solved
  /\ result.solution = <<"bug">>

\* C6: once run_s2_solver has returned its solution is final: no
\* validate_solution and no S1 call follows, and the outcome is solved,
\* s2_solved, not s1_solved, with the S2 result as solution.
C6_S2Final ==
  s2_mark.at # 0
  => /\ pc \in {"done", "returned"}
     /\ Len(val_log) = s2_mark.vals
     /\ s1_calls = s2_mark.s1
     /\ iteration = s2_mark.at
     /\ solution = s2_mark.solution
     /\ s2_solved /\ ~s1_solved
     /\ pc = "returned"
          => /\ result.solved
             /\ result.s2_solved
             /\ ~result.s1_solved
             /\ result.solution = s2_mark.solution

\* the S2 result is one no validation accepts and differs from the last S1
\* candidate
C6_Witness ==
  /\ pc = "returned"
  /\ result.s2_solved
  /\ \A out \in validate_solution(problem, result.solution) : ~out[1]
  /\ result.solution # val_log[Len(val_log)].solution

\* C7: memory changes in a solve call exactly when the call returns
\* solved, and then by one entry appended last, the pair (problem
\* representation, formatted returned solution), duplicates included; after
\* n solved calls the memory holds n entries.
C7_MemoryOnSolved ==
  /\ pc = "returned" =>
       IF result.solved
       THEN memory = Append(mem_start,
                            << get_problem_representation(problem),
                               format_solution_for_memory(result.solution) >>)
       ELSE memory = mem_start
  /\ pc = "raised" => memory = mem_start
  /\ (Running /\ pc # "done") => memory = mem_start
  /\ pc # "done" => Len(memory) = solved_calls

C7_Witness ==
  /\ pc = "returned"
  /\ solved_calls = 2
  /\ Len(memory) = 2
  /\ memory[1] = memory[2]

\* C8: with max_iterations = 3 and validation failing with the same
\* feedback every round, solve makes two S1 calls, escalates in iteration 2,
\* makes one S2 call and returns iterations = 2 with tier S2.
C8_ScenarioB ==
  (/\ max_iterations = 3
   /\ AllInvalid
   /\ \A k \in 1 .. Len(val_log) : val_log[k].feedback = val_log[1].feedback)
  => /\ Len(val_log) <= 2
     /\ s1_calls <= 2
     /\ pc = "returned"
          => /\ s1_calls = 2
             /\ s2_calls = 1
             /\ s2_mark.at = 2
             /\ result.iterations = 2
             /\ result.s2_solved
             /\ ~result.s1_solved

C8_Witness ==
  /\ pc = "returned"
  /\ max_iterations = 3
  /\ Len(val_log) = 2
  /\ AllInvalid
  /\ val_log[2].feedback = val_log[1].feedback
  /\ result.iterations = 2

\* C9: on an iteration below max_iterations whose validation failed, the
\* call escalates exactly when the no-improvement flag is true after the
\* update with that feedback; otherwise it goes back to the loop head with
\* another S1 call due.
C9_EscalateIffFlag ==
  [][(pc = "validated" /\ ~is_valid /\ iteration < max_iterations
        /\ pc' # "raised")
     => /\ trend_evaluator' = Append(trend_evaluator, feedback)
        /\ (pc' = "escalate") <=> get_no_improvement_flag(trend_evaluator')
        /\ ~get_no_improvement_flag(trend_evaluator')
             => /\ pc' = "loop"
                /\ iteration' = iteration
                /\ s2_calls' = 0]_vars

C9_Witness ==
  /\ pc = "escalate"
  /\ iteration < max_iterations
  /\ get_no_improvement_flag(trend_evaluator)

\* C10: the conversation is append-only and well formed: the k-th S1 call
\* receives 2k-1 turns, the first is the initial prompt as 'user', roles
\* alternate, turn 2j is the j-th response and turn 2j+1 is 'Feedback: '
\* with the formatted j-th feedback, and earlier turns never change.
C10_Conversation ==
  /\ \A k \in 1 .. Len(s1_inputs) :
       LET m == s1_inputs[k] IN
       /\ Len(m) = 2 * k - 1
       /\ m[1] = [role |-> "user",
                  content |-> build_prompt(problem, episodic_examples)]
       /\ \A t \in 1 .. Len(m) :
            m[t].role = IF t % 2 = 1 THEN "user" ELSE "assistant"
       /\ \A j \in 1 .. k - 1 :
            /\ m[2 * j] = [role |-> "assistant", content |-> s1_outputs[j]]
            /\ m[2 * j + 1] =
                 [role |-> "user",
                  content |-> << "Feedback: ",
                                 format_feedback(val_log[j].feedback) >>]
       /\ k > 1 => SubSeq(m, 1, 2 * k - 3) = s1_inputs[k - 1]
  /\ Len(s1_inputs) > 0
       => LET last == s1_inputs[Len(s1_inputs)]
          IN SubSeq(messages, 1, Len(last)) = last

C10_Witness ==
  /\ Len(s1_inputs) = 3
  /\ Len(s1_inputs[3]) = 5
  /\ pc = "s1_returned"

\* the control state of spec 4.4 read off the position of the call; FAILED
\* is a call that raised or returned unsolved
Control ==
  CASE pc = "idle" -> "NONE"
    [] pc = "init" -> "INIT"
    [] pc \in {"loop", "s1_returned", "validated"} -> "REFINING"
    [] pc = "escalate" -> "ESCALATING"
    [] pc \in {"done", "returned"} /\ s1_solved -> "SOLVED_S1"
    [] pc \in {"done", "returned"} /\ ~s1_solved /\ s2_solved -> "SOLVED_S2"
    [] OTHER -> "FAILED"

ControlEdges ==
  { <<"INIT", "REFINING">>, <<"REFINING", "SOLVED_S1">>,
    <<"REFINING", "ESCALATING">>, <<"ESCALATING", "SOLVED_S2">> }

IsPrefix(a, b) == Len(a) <= Len(b) /\ SubSeq(b, 1, Len(a)) = a

\* C12: across any sequence of solve calls the episodic memory is an
\* append-only log: after every step the entries before it are a prefix of
\* the entries after it.
C12_AppendOnlyMemory == [][IsPrefix(memory, memory')]_vars

C12_Witness ==
  /\ pc = "returned"
  /\ retrieved
  /\ Len(mem_start) = 1
  /\ Len(memory) = 2
  /\ memory[1] = mem_start[1]

\* how often entry e occurs in the sequence q
Occurrences(q, e) == Cardinality({i \in 1 .. Len(q) : q[i] = e})

\* C13: retrieval has no lookahead: it happens before anything is added in
\* the call, so every seeding example given to build_prompt is an entry that
\* was stored when the call started, and memory differs from that only once
\* the call has finished solving.
C13_NoLookahead ==
  /\ pc = "init" => ~retrieved /\ memory = mem_start
  /\ memory # mem_start => pc \in {"done", "returned"}
  /\ Len(episodic_examples) <= Len(mem_start)
  /\ \A i \in 1 .. Len(episodic_examples) :
       Occurrences(episodic_examples, episodic_examples[i])
         <= Occurrences(mem_start, episodic_examples[i])
  /\ Len(messages) >= 1
       => messages[1].content = build_prompt(problem, episodic_examples)

C13_Witness ==
  /\ pc = "returned"
  /\ retrieved
  /\ Len(episodic_examples) = 1
  /\ Len(memory) = 2
  /\ memory[2] = memory[1]

\* C14: retrieve_similar is called in a solve exactly when the memory held
\* an entry at its start; on an empty memory retrieval is skipped and
\* build_prompt receives no examples.
C14_RetrieveIffNonEmpty ==
  Len(messages) >= 1
  => /\ retrieved <=> mem_start # <<>>
     /\ mem_start = <<>>
          => /\ episodic_examples = <<>>
             /\ messages[1].content = build_prompt(problem, <<>>)
     /\ mem_start # <<>> => Len(episodic_examples) >= 1

C14_Witness ==
  /\ pc = "s1_returned"
  /\ solves = 1
  /\ mem_start = <<>>
  /\ ~retrieved
  /\ messages[1].content.examples = <<>>

\* the feedback of the first n validations
FeedbackOf(n) == [k \in 1 .. n |-> val_log[k].feedback]

NumInvalid == Cardinality({k \in 1 .. Len(val_log) : ~val_log[k].is_valid})

\* C20: the trend evaluator's history belongs to one solve call: it is empty
\* when the call starts and holds exactly the feedback of this call's failed
\* validations, in order; nothing of an earlier call is in it.
C20_TrendScopedToCall ==
  /\ pc = "init" => trend_evaluator = <<>>
  /\ pc = "validated" => trend_evaluator = FeedbackOf(Len(val_log) - 1)
  /\ pc \in {"loop", "s1_returned", "escalate", "done", "returned"}
       => trend_evaluator = FeedbackOf(NumInvalid)
  /\ pc = "raised" => IsPrefix(trend_evaluator, FeedbackOf(Len(val_log)))

C20_Witness ==
  /\ solves = 2
  /\ solved_calls = 1
  /\ pc = "escalate"
  /\ Len(trend_evaluator) = 2

\* the current call ended because an S1 agent call, or the S2 call, raised
S1AgentFault == s1_calls # Len(s1_outputs)

S2AgentFault == pc = "raised" /\ s2_calls > 0

\* C15: when the agent client raises in an S1 call or in the S2 call, solve
\* ends by raising: the failed call is the call's last agent call (no retry,
\* nothing after it), no outcome is returned, and the memory is as it was when
\* the call started.
C15_AgentFaultPropagates ==
  /\ [](S1AgentFault
          => /\ pc = "raised"
             /\ s1_calls = Len(s1_outputs) + 1
             /\ s2_calls = 0)
  /\ []((S1AgentFault \/ S2AgentFault)
          => /\ memory = mem_start
             /\ result = NoOutcome
             /\ ~s1_solved /\ ~s2_solved)
  /\ [][pc = "raised" => pc' = "init"]_vars

C15_Witness ==
  /\ pc = "raised"
  /\ S1AgentFault
  /\ s1_calls = 2
  /\ Len(memory) = 1
  /\ memory = mem_start

\* C19: System 2 is isolated from the refinement state: what run_s2_solver
\* sends goes to the S2 client, never the S1 client, and is one user turn
\* holding the prompt of the problem with no examples, whatever the S1
\* conversation and the retrieved examples were.
C19_S2Isolated ==
  /\ s2_calls = 0 => s2_input = NoInput
  /\ s2_calls > 0
       => /\ s2_input.client = "s2_llm_solver"
          /\ Len(s2_input.messages) = 1
          /\ s2_input.messages[1].role = "user"
          /\ s2_input.messages[1].content.task = problem
          /\ s2_input.messages[1].content.examples = <<>>

C19_Witness ==
  /\ pc = "done"
  /\ s2_calls = 1
  /\ retrieved
  /\ Len(messages) = 3
  /\ messages[1].content.examples # <<>>
  /\ Len(s2_input.messages) = 1

\* every S1 response received so far was parsed and the parsed value was
\* what validate_solution was given
ParsedThenValidated ==
  \A k \in 1 .. Len(val_log) :
    /\ k <= Len(s1_outputs)
    /\ val_log[k].solution = parse_solution(s1_outputs[k])

\* C16, as stated: for every agent text the domain's parser returns a value
\* without raising (the whole stripped text, or the empty mapping, when
\* nothing can be extracted), and inside solve the parsed value is what
\* validate_solution receives, a failed validation then continuing or
\* escalating as usual.
C16_Original ==
  /\ probe.parser = "parse_fixed_code"
       => /\ probe.fixed_code \in Texts
          /\ Search(probe.response, Fences \cup {"<code>"},
                    Fences \cup {"</code>"}) = NoMatch
               => probe.fixed_code = Strip(probe.response)
  /\ probe.parser = "parse_solution"
       => /\ ~probe.coloring.raised
          /\ (\A i \in 1 .. Len(probe.lines) : probe.lines[i].kind = "junk")
               => probe.coloring.value = {}
  /\ ParsedThenValidated
  /\ (pc = "validated" /\ ~is_valid)
       => solution = parse_solution(llm_response)

\* parse_fixed_code on texts whose result the interpreter gives
ParseFixedCodeExamples ==
  /\ parse_fixed_code(<<"bug", "fence_python", "fix", "fence_python">>)
       = <<"fix">>
  /\ parse_fixed_code(<<"fence", "_", "fix", "fence_python", "bug">>)
       = <<"fix">>
  /\ parse_fixed_code(<<"fence_python", "_", "fix">>)
       = <<"fence_python", "_", "fix">>
  /\ parse_fixed_code(<<"<code>", "fix", "<code>", "bug", "</code>", "_",
                        "</code>">>) = <<"fix", "<code>", "bug">>
  /\ parse_fixed_code(<<"</code>", "fence", "fix", "fence", "<code>">>)
       = <<"fix">>
  /\ parse_fixed_code(<<"<code>", "</code>">>) = <<>>
  /\ parse_fixed_code(<<>>) = <<>>

\* C17: validate_code_with_leetcode never raises: when obtaining the tester
\* or submitting raises, the call returns is_valid = False with the error
\* text and status_msg "Environment Error" or "Validation Error".
C17_ValidatorNeverRaises ==
  /\ ~validation.raised
  /\ validation.error # ""
       => /\ ~validation.is_valid
          /\ validation.status_msg \in {"Environment Error",
                                        "Validation Error"}
  /\ (validation # NoValidation /\ ~tester_instance)
       => validation.error \in {"EnvironmentError", "ImportError",
                                "RuntimeError"}
  /\ validation.is_valid
       => validation.status_msg = "Accepted" /\ validation.error = ""

C17_Witness ==
  /\ validation.error = "RuntimeError"
  /\ validation.status_msg = "Validation Error"
  /\ tester_instance
  /\ last_submission_time > 0

FewerViolations(a, b) == a.shape = b.shape /\ a.size < b.size

\* C21: after exactly one update the no-improvement flag is false; after two
\* or more it is true when the latest sample is identical to the previous
\* one and false when the latest reports strictly fewer violations.
C21_TrendResult ==
  LET n == Len(trend_evaluator) IN
  /\ n = 1 => ~get_no_improvement_flag(trend_evaluator)
  /\ (n >= 2 /\ trend_evaluator[n] = trend_evaluator[n - 1])
       => get_no_improvement_flag(trend_evaluator)
  /\ (n >= 2 /\ FewerViolations(trend_evaluator[n], trend_evaluator[n - 1]))
       => ~get_no_improvement_flag(trend_evaluator)

C21_Witness ==
  /\ pc = "escalate"
  /\ Len(trend_evaluator) = 3
  /\ FewerViolations(trend_evaluator[2], trend_evaluator[1])
  /\ trend_evaluator[3] = trend_evaluator[2]
  /\ iteration = 3

\* the feedback being added has another shape than the sample before it
ShapeSwitch ==
  /\ Len(trend_evaluator) >= 1
  /\ feedback.shape # trend_evaluator[Len(trend_evaluator)].shape

\* C22: when the latest feedback sample has another shape than the previous
\* one, the evaluator reports no improvement and the controller escalates on
\* that iteration: no further S1 call, no further turn in the conversation.
C22_ShapeSwitchEscalates ==
  /\ [][(pc = "validated" /\ ~is_valid /\ ShapeSwitch /\ pc' # "raised")
        => /\ get_no_improvement_flag(trend_evaluator')
           /\ pc' = "escalate"
           /\ iteration' = iteration
           /\ messages' = messages]_vars
  /\ [](\A k \in 2 .. Len(val_log) :
          val_log[k].feedback.shape # val_log[k - 1].feedback.shape
          => /\ k = Len(val_log)
             /\ s1_calls = k
             /\ pc \in {"validated", "escalate", "done", "returned", "raised"})

C22_Witness ==
  /\ pc = "escalate"
  /\ max_iterations = 3
  /\ iteration = 2
  /\ Len(trend_evaluator) = 2
  /\ trend_evaluator[1].shape = "list"
  /\ trend_evaluator[2].shape = "dict"

UniqueToken(mem, i, t) ==
  /\ t \in TokensOf(mem[i][1])
  /\ \A j \in 1 .. Len(mem) : j # i => t \notin TokensOf(mem[j][1])

\* the entries holding a token that no other entry holds
WithUniqueToken(mem) ==
  {i \in 1 .. Len(mem) : \E t \in TokensOf(mem[i][1]) : UniqueToken(mem, i, t)}

\* entry i of the store comes first in what was retrieved
RankedFirst(i) ==
  probe.retrieved.entries # <<>>
  => probe.retrieved.entries[1] = probe.store[i]

C26_Original ==
  tester_log.tests >= 2 => tester_log.gap >= SUBMISSION_COOLDOWN

\* what the code keeps: the cooldown is counted from the last submission
\* that returned
SpacedAfterReturn ==
  /\ last_submission_time <= now
  /\ (tester_log.tests >= 1 /\ ~tester_log.raised)
       => tester_log.at <= last_submission_time
  /\ [][(tester_log'.at # tester_log.at \/ tester_log'.tests # tester_log.tests)
        => tester_log'.at - last_submission_time >= SUBMISSION_COOLDOWN]_vars

\* the credential or the tester class was found missing by the last call
CredentialError == validation.error \in {"EnvironmentError", "ImportError"}

\* C27: at most one LeetCodeTester is ever created: once the singleton is
\* set it stays set, and later calls use it without looking at the
\* credential again; a call that finds the credential or the class missing
\* raises inside and leaves the singleton unset, so a later call may create
\* it.
C27_SingleTester ==
  /\ [](/\ tester_log.created <= 1
        /\ tester_instance <=> tester_log.created = 1
        /\ tester_log.tests >= 1 => tester_instance)
  /\ [][tester_instance
        => /\ tester_instance'
           /\ tester_log'.created = tester_log.created
           /\ validation' # validation => ~CredentialError']_vars
  /\ [][(validation' # validation /\ CredentialError')
        => /\ ~tester_instance'
           /\ tester_log'.created = 0
           /\ tester_log'.unavailable
           /\ tester_log'.tests = 0]_vars

C27_Witness ==
  /\ tester_log.unavailable
  /\ tester_log.created = 1
  /\ tester_instance
  /\ ~leetcode_session
  /\ tester_log.tests = 2
  /\ validation.is_valid

\* C28: the agent client is stateless: an S1 call leaves the conversation it
\* is given and the fields of the client unchanged and returns the chunks of
\* the stream concatenated in order; the controller passes the whole
\* conversation accumulated so far, every earlier response included, on
\* every S1 call.
C28_StatelessClient ==
  /\ [][llm_solver' = llm_solver]_vars
  /\ [][s1_calls' = s1_calls + 1
        => /\ messages' = messages
           /\ s1_inputs' = Append(s1_inputs, messages)
           /\ pc' = "s1_returned"
                => /\ stream' \in Streams
                   /\ llm_response' = Concat(stream')
                   /\ s1_outputs' = Append(s1_outputs, llm_response')]_vars
  /\ [](\A k \in 1 .. Len(s1_inputs) :
          /\ Len(s1_inputs[k]) = 2 * k - 1
          /\ \A j \in 1 .. k - 1 :
               s1_inputs[k][2 * j].content = s1_outputs[j])

C28_Witness ==
  /\ pc = "s1_returned"
  /\ s1_calls = 3
  /\ Len(stream) = 3
  /\ Len(messages) = 5
  /\ llm_response = <<"bug", "_", "bug">>
  /\ messages[2].content = <<"fence_python", "bug", "fence">>

\* C29, as stated: in every returned outcome iterations equals the number
\* of S1 agent calls made in that solve and 0 <= iterations <=
\* max_iterations.
C29_Original ==
  pc = "returned"
  => /\ result.iterations = s1_calls
     /\ 0 <= result.iterations
     /\ result.iterations <= max_iterations

\* C29, amended: in every returned outcome iterations equals the number of
\* S1 agent calls of that solve and 0 <= iterations <= max(max_iterations,
\* 0); the counter goes up by exactly one with each S1 call, by nothing
\* else, and escalation leaves it as it is.
C29_IterationsCountS1Calls ==
  /\ [](/\ iteration = s1_calls
        /\ 0 <= iteration
        /\ iteration <= Max(max_iterations, 0)
        /\ pc = "returned" => result.iterations = s1_calls)
  /\ [][pc' # "init"
        => /\ iteration' \in {iteration, iteration + 1}
           /\ iteration' = iteration + 1 <=> s1_calls' = s1_calls + 1]_vars
  /\ [][pc = "escalate"
        => iteration' = iteration /\ s1_calls' = s1_calls]_vars

C29_Witness ==
  /\ pc = "returned"
  /\ max_iterations = 3
  /\ result.iterations = 2
  /\ s1_calls = 2
  /\ s2_calls = 1
  /\ result.s2_solved

\* some S1 candidate of this call passed validation
SomeCandidateValid == \E k \in 1 .. Len(val_log) : val_log[k].is_valid

\* C30: s1_solved and s2_solved are never both true; s2_solved is true
\* exactly when run_s2_solver was invoked and returned; between two steps of
\* the loop, and at the return, s1_solved is true exactly when an S1
\* candidate passed validation; the outcome carries both flags and solved is
\* their disjunction.
C30_TierFlags ==
  /\ ~(s1_solved /\ s2_solved)
  /\ s2_solved <=> s2_mark.at # 0
  /\ s2_solved => s2_calls = 1 /\ pc \in {"done", "returned"}
  /\ pc \notin {"validated", "raised"} => (s1_solved <=> SomeCandidateValid)
  /\ s1_solved => SomeCandidateValid
  /\ pc = "returned"
       => /\ result.s1_solved = s1_solved
          /\ result.s2_solved = s2_solved
          /\ result.solved = (result.s1_solved \/ result.s2_solved)
  /\ pc # "returned" => result = NoOutcome

C30_Witness ==
  /\ pc = "returned"
  /\ result.solved
  /\ result.s1_solved
  /\ ~result.s2_solved
  /\ Len(val_log) = 2
  /\ ~val_log[1].is_valid
  /\ val_log[2].is_valid
  /\ s2_calls = 0

\* C31: when max_iterations >= 2 the first failed validation never
\* escalates: the evaluator created for the call then holds one sample and
\* reports no trend, the step goes back to the loop head with another S1
\* call due, and System 2 runs after a single S1 call only when
\* max_iterations = 1.
C31_NoEscalationOnFirst ==
  /\ []((pc = "escalate" \/ s2_calls > 0) /\ s1_calls = 1
          => max_iterations = 1 /\ iteration = 1)
  /\ [][pc = "validated" /\ ~is_valid /\ iteration = 1
          /\ max_iterations >= 2 /\ pc' # "raised"
        => /\ Len(trend_evaluator') = 1
           /\ ~get_no_improvement_flag(trend_evaluator')
           /\ pc' = "loop"
           /\ LoopCondition(iteration', max_iterations)
           /\ s2_calls' = 0]_vars

C31_Witness ==
  /\ max_iterations >= 2
  /\ s1_calls = 2
  /\ Len(val_log) >= 1
  /\ ~val_log[1].is_valid
  /\ val_log[1].feedback.shape = "dict"
  /\ s2_calls = 0
  /\ solves = 2

\* the loader got as far as selecting the problem with an index given
IndexSelected ==
  /\ main.loaded.called
  /\ main.args.problem_index.given
  /\ main.loaded.line \in {65, 67}

\* C33, as stated: load_problem_from_dataset raises ValueError for every
\* problem_index outside 0 .. len(data) - 1, too large or negative, and
\* returns a problem only for an index inside that range, the problem then
\* being built from data[problem_index].
C33_Original ==
  IndexSelected
    => LET i == main.args.problem_index.value
           n == main.loaded.data_len
       IN /\ i \notin 0 .. n - 1 <=> main.loaded.raised = "ValueError"
          /\ main.loaded.raised = "" => i \in 0 .. n - 1 /\ main.loaded.item = i

\* C35, as stated: for every valid command line main generates one problem,
\* constructs the MCModule from the arguments and goes on to solve: once the
\* problem is generated, main does not fail on the controller's construction,
\* and the controller holds the S1 model, the S2 model and max-iterations of
\* the command line.
C35_Original ==
  /\ main.problems <= 1
  /\ main.problems = 1 => main.pc # "raised"
  /\ main.pc = "constructed"
       => /\ main.mc.llm_model = main.args.s1_llm
          /\ main.mc.s2_llm_model = main.args.s2_lrm
          /\ main.mc.max_iterations = main.args.max_iterations

\* the opener/closer pairs of a text, and the stripped body of the first
\* one: the leftmost opener that has a closer, up to its nearest closer
Pairs(t, openers, closers) ==
  {m \in (1 .. Len(t)) \X (1 .. Len(t)) :
     m[1] < m[2] /\ t[m[1]] \in openers /\ t[m[2]] \in closers}

FirstBody(t, openers, closers) ==
  LET i == SetMin({m[1] : m \in Pairs(t, openers, closers)})
      j == SetMin({m[2] : m \in {q \in Pairs(t, openers, closers) : q[1] = i}})
  IN Strip(SubSeq(t, i + 1, j - 1))

====
